---- MODULE Spec2Model ----
(***************************************************************************)
(* Model of the stepping core of the simulator: Simulation::start, its     *)
(* main loop, doSimStep, pause, shutdown, the GPS time-of-week clock and   *)
(* the speed-factor setter (src/src/sim/core/Simulation.cpp).              *)
(*                                                                         *)
(* Times are nanosecond counts.  The code keeps them in a double; every    *)
(* value met here is an integer below 2^53, so double arithmetic on them   *)
(* is exact.  A time is written [s |-> seconds, ns |-> nanoseconds] with   *)
(* 0 <= ns < 10^9 and stands for s * 10^9 + ns.                            *)
(* Speed factors are written in units of 0.00001.                          *)
(***************************************************************************)
EXTENDS Integers, Sequences, FiniteSets

\* ---------------------------------------------------------------- bounds

\* Steps the main loop may execute in a run.
MaxSteps == 4

\* Calls of pause() the external threads may issue in a run.
MaxPauseCalls == 3

\* Clock advances applied in the clock specification.
MaxClockSteps == 3

\* Requested speed factors -SpeedProbe .. SpeedProbe (units of 0.00001).
SpeedProbe == 60

\* POSIX start values within PosixProbe seconds of the remarkable ones.
PosixProbe == 20

\* ------------------------------------------------------- program constants

NsPerSec == 1000000000

WeekSec == 604800

GpsEpochOffset == 315964809

\* 0.0001 and 10000 in units of 0.00001
MinSpeed == 10

MaxSpeed == 1000000000

\* ------------------------------------------------------------ input sets

\* Threads that call pause().
Threads == {"t1", "t2"}

\* Values of callbackFrequency (constant during a run).
CallbackFrequencies == 0 .. 3

\* ------------------------------------------------------------------ times

T(sec, nano) == [s |-> sec, ns |-> nano]

TAdd(a, b) ==
    LET n == a.ns + b.ns
    IN  IF n >= NsPerSec THEN T(a.s + b.s + 1, n - NsPerSec)
                         ELSE T(a.s + b.s, n)

\* a > 604800000000000.
GtWeek(a) == a.s > WeekSec \/ (a.s = WeekSec /\ a.ns > 0)

\* 0 <= a < 604800 * 10^9
InWeek(a) == a.s >= 0 /\ a.s < WeekSec /\ a.ns >= 0 /\ a.ns < NsPerSec

\* a < b
TLess(a, b) == a.s < b.s \/ (a.s = b.s /\ a.ns < b.ns)

\* The clock advance without the wrap.
AdvanceClockNoWrap(t, d) == TAdd(t, d)

\* currentGpsTime_ns += stepGpsTime_ns; if (> week) -= week
AdvanceClock(t, d) ==
    LET u == TAdd(t, d)
    IN  IF GtWeek(u) THEN T(u.s - WeekSec, u.ns) ELSE u

\* C++ a % b on long, b > 0: the remainder has the sign of a.
CRem(a, b) == IF a >= 0 THEN a % b ELSE -((-a) % b)

\* (double)((now - 315964809L) % 604800L) * 1000000000.
GpsTimeOf(now) == T(CRem(now - GpsEpochOffset, WeekSec), 0)

\* --------------------------------------------------------------- clamping

\* setSimSpeedFactor with the lower test on < 0 instead of <= 0.
ClampSpeedStrict(factor) ==
    LET f1 == IF factor < 0 THEN MinSpeed ELSE factor
    IN  IF f1 > MaxSpeed THEN MaxSpeed ELSE f1

\* if (factor <= 0) factor = 0.0001; if (factor > 10000) factor = 10000;
ClampSpeed(factor) ==
    LET f1 == IF factor <= 0 THEN MinSpeed ELSE factor
    IN  IF f1 > MaxSpeed THEN MaxSpeed ELSE f1

\* ------------------------------------------------------------------ state

VARIABLES
    pc,                 \* position of the control thread in start()
    iter,               \* start(): size_t iter
    mStopped,           \* the external stop predicate read by isStopped()
    currentStep,        \* stepLoop's step counter
    currentGpsTime_ns,  \* the clock
    stepGpsTime_ns,     \* per-step clock delta
    finished,           \* Simulation::finished
    mPaused,            \* Simulation::mPaused
    pauseLock,          \* TRUE iff pauseLock owns a lock on Simulation::mutex
    ppc,                \* per thread: position inside pause()
    parg,               \* per thread: argument of its last pause() call
    pauseCalls,         \* pause() calls issued so far
    pauseHeld,          \* a pause(true) has returned, no pause(false) called since
    callback,           \* TRUE iff a callback is registered
    callbackFrequency,  \* getCallbackFrequency()
    cycleMeasurements,  \* scanner's measurement buffer
    cycleTrajectories,  \* scanner's trajectory buffer
    cbLog,              \* the callback invocations so far
    rotateCompleted,    \* getScannerHead(0)->rotateCompleted()
    waypointReached,    \* platform->waypointReached()
    mCurrentLegIndex,   \* current leg
    platformCalls,      \* calls of platform->doSimStep
    scannerCalls,       \* calls of mScanner->doSimStep
    sceneCalls,         \* calls of scene->doSimStep
    clockAdvances,      \* clock advances
    legCompletions,     \* calls of onLegComplete
    scannerArgs,        \* arguments of the last mScanner->doSimStep call
    scannerNotified,    \* onSimulationFinished has been called
    mSimSpeedFactor,    \* the effective speed factor
    reqFactor,          \* the last value passed to setSimSpeedFactor
    speedCalls,         \* 1 once setSimSpeedFactor has been called
    posixNow,           \* the resolved POSIX seconds (calcCurrentGpsTime: now)
    constructed,        \* the constructor has run
    clockSteps,         \* clock advances applied (clock specification)
    runs,               \* calls of start() so far
    mScanner,           \* identity of the scanner set by setScanner
    fixedGpsTimeStart,  \* the fixed start specification, a string of characters
    ctorFailed,         \* the constructor has thrown
    cmMutex,            \* owner of the scanner's cycleMeasurementsMutex
    handed,             \* the buffers as the callback in progress was given them
    produced,           \* records appended by the pulse workers so far
    phi,                \* phongBDRF: incidence angle, in units of pi / 6
    ks,                 \* phongBDRF: specularity, in quarters
    nsExp,              \* phongBDRF: specular exponent
    bdrf                \* phongBDRF: the value returned, or "none"

loopVars == <<pc, iter, mStopped, currentStep, finished, callback,
              callbackFrequency, cycleMeasurements, cycleTrajectories, cbLog,
              rotateCompleted, waypointReached, mCurrentLegIndex,
              platformCalls, scannerCalls, sceneCalls, clockAdvances,
              legCompletions, scannerArgs, scannerNotified>>

pauseVars == <<mPaused, pauseLock, ppc, parg, pauseCalls, pauseHeld>>

clockVars == <<currentGpsTime_ns, stepGpsTime_ns, posixNow, constructed,
               clockSteps>>

speedVars == <<mSimSpeedFactor, reqFactor, speedCalls>>

rerunVars == <<runs, mScanner>>

parseVars == <<fixedGpsTimeStart, ctorFailed>>

drainVars == <<cmMutex, handed, produced>>

mathVars == <<phi, ks, nsExp, bdrf>>

auxVars == <<rerunVars, parseVars, drainVars, mathVars>>

vars == <<loopVars, pauseVars, clockVars, speedVars, auxVars>>

\* ------------------------------------------------------------ input sets 2

\* Resolved POSIX start time of the runs of the main loop: two seconds
\* before the end of a GPS week, so that a run steps onto and over the end.
LoopStarts == {GpsEpochOffset + WeekSec - 2}

\* The thread that calls pause() while the main loop runs.
LoopThreads == {"t1"}

\* Per-step clock deltas of the runs of the main loop (pulse frequency 1 Hz).
LoopDeltas == {T(1, 0)}

\* What one scanner step appends to the buffers.
Produce == {"none", "meas", "traj"}

\* ------------------------------------------------------------------- Init

InitLoop ==
    /\ pc = "init"
    /\ iter = 1
    /\ mStopped = FALSE
    /\ currentStep = 0
    /\ finished = FALSE
    /\ callback \in BOOLEAN
    /\ callbackFrequency \in CallbackFrequencies
    /\ cycleMeasurements = <<>>
    /\ cycleTrajectories = <<>>
    /\ cbLog = <<>>
    /\ rotateCompleted = FALSE
    /\ waypointReached = FALSE
    /\ mCurrentLegIndex = 0
    /\ platformCalls = 0
    /\ scannerCalls = 0
    /\ sceneCalls = 0
    /\ clockAdvances = 0
    /\ legCompletions = 0
    /\ scannerArgs = [leg |-> 0, time |-> T(0, 0)]
    /\ scannerNotified = FALSE

InitPause ==
    /\ mPaused = FALSE
    /\ pauseLock = FALSE
    /\ ppc = [t \in Threads |-> "idle"]
    /\ parg = [t \in Threads |-> FALSE]
    /\ pauseCalls = 0
    /\ pauseHeld = FALSE

InitSpeed ==
    /\ mSimSpeedFactor = 10 * 10000
    /\ reqFactor = 10 * 10000
    /\ speedCalls = 0

InitRerun ==
    /\ runs = 0
    /\ mScanner = 1

InitDrain ==
    /\ cmMutex = "free"
    /\ handed = [meas |-> <<>>, traj |-> <<>>]
    /\ produced = 0

InitMath ==
    /\ phi = 0
    /\ ks = 0
    /\ nsExp = 0
    /\ bdrf = [set |-> FALSE, val |-> 0]

\* the empty start specification, resolved from the wall clock
InitParsed ==
    /\ fixedGpsTimeStart = <<>>
    /\ ctorFailed = FALSE

\* Simulation::Simulation: currentGpsTime_ns = calcCurrentGpsTime()
Construct(now) ==
    /\ posixNow = now
    /\ constructed = TRUE
    /\ currentGpsTime_ns = GpsTimeOf(now)
    /\ stepGpsTime_ns = T(0, 0)
    /\ clockSteps = 0

Init ==
    /\ InitLoop
    /\ InitPause
    /\ InitSpeed
    /\ InitRerun /\ InitParsed /\ InitDrain /\ InitMath
    /\ \E now \in LoopStarts : Construct(now)

\* ------------------------------------------------------- the control thread

\* start() up to the loop, with prepareSimulation
Start ==
    /\ pc = "init"
    /\ finished' = FALSE
    /\ currentStep' = 0
    /\ \E d \in LoopDeltas : stepGpsTime_ns' = d
    /\ iter' = 1
    /\ pc' = "loop"
    /\ UNCHANGED <<mStopped, callback, callbackFrequency, cycleMeasurements,
                   cycleTrajectories, cbLog, rotateCompleted, waypointReached,
                   mCurrentLegIndex, platformCalls, scannerCalls, sceneCalls,
                   clockAdvances, legCompletions, scannerArgs, scannerNotified>>
    /\ UNCHANGED <<currentGpsTime_ns, posixNow, constructed, clockSteps>>
    /\ UNCHANGED <<pauseVars, speedVars, auxVars>>

\* what the control thread leaves alone outside its own position
MainFrame ==
    /\ UNCHANGED <<pauseVars, speedVars, auxVars>>
    /\ UNCHANGED <<stepGpsTime_ns, posixNow, constructed, clockSteps>>
    /\ UNCHANGED <<mStopped, callback, callbackFrequency, finished>>

\* while (!isStopped()): the loop goes on
LoopContinue ==
    /\ pc = "loop"
    /\ ~mStopped
    /\ currentStep < MaxSteps
    /\ pc' = "lock"
    /\ UNCHANGED <<iter, currentStep, cycleMeasurements, cycleTrajectories,
                   cbLog, rotateCompleted, waypointReached, mCurrentLegIndex,
                   platformCalls, scannerCalls, sceneCalls, clockAdvances,
                   legCompletions, scannerArgs, scannerNotified,
                   currentGpsTime_ns>>
    /\ MainFrame

\* while (!isStopped()): the loop ends
LoopExit ==
    /\ pc = "loop"
    /\ mStopped
    /\ pc' = "finish"
    /\ UNCHANGED <<iter, currentStep, cycleMeasurements, cycleTrajectories,
                   cbLog, rotateCompleted, waypointReached, mCurrentLegIndex,
                   platformCalls, scannerCalls, sceneCalls, clockAdvances,
                   legCompletions, scannerArgs, scannerNotified,
                   currentGpsTime_ns>>
    /\ MainFrame

\* if (iter == 1) { std::unique_lock<std::mutex> lock(mutex); }
\* The control thread takes Simulation::mutex only in iterations with iter == 1.
LocksMutex(it) == it = 1

LoopLock ==
    /\ pc = "lock"
    /\ LocksMutex(iter) => ~pauseLock
    /\ pc' = "step"
    /\ UNCHANGED <<iter, currentStep, cycleMeasurements, cycleTrajectories,
                   cbLog, rotateCompleted, waypointReached, mCurrentLegIndex,
                   platformCalls, scannerCalls, sceneCalls, clockAdvances,
                   legCompletions, scannerArgs, scannerNotified,
                   currentGpsTime_ns>>
    /\ MainFrame

\* The leg test with one predicate enough.
LegCompletedEither(rot, wp) == rot \/ wp

\* rotateCompleted() && waypointReached()
LegCompleted(rot, wp) == rot /\ wp

\* doSimStep: the leg-completion path (onLegComplete(); return;)
StepLegComplete ==
    /\ pc = "step"
    /\ LegCompleted(rotateCompleted, waypointReached)
    /\ legCompletions' = legCompletions + 1
    /\ mCurrentLegIndex' = mCurrentLegIndex + 1
    /\ rotateCompleted' = FALSE
    /\ waypointReached' = FALSE
    /\ pc' = "next"
    /\ UNCHANGED <<iter, currentStep, cycleMeasurements, cycleTrajectories,
                   cbLog, platformCalls, scannerCalls, sceneCalls,
                   clockAdvances, scannerArgs, scannerNotified,
                   currentGpsTime_ns>>
    /\ MainFrame

\* doSimStep: the test fails, the ordered execution begins
StepBegin ==
    /\ pc = "step"
    /\ ~LegCompleted(rotateCompleted, waypointReached)
    /\ pc' = "platform"
    /\ UNCHANGED <<iter, currentStep, cycleMeasurements, cycleTrajectories,
                   cbLog, rotateCompleted, waypointReached, mCurrentLegIndex,
                   platformCalls, scannerCalls, sceneCalls, clockAdvances,
                   legCompletions, scannerArgs, scannerNotified,
                   currentGpsTime_ns>>
    /\ MainFrame

\* mScanner->platform->doSimStep(...)
StepPlatform ==
    /\ pc = "platform"
    /\ platformCalls' = platformCalls + 1
    /\ waypointReached' \in BOOLEAN
    /\ pc' = "scanner"
    /\ UNCHANGED <<iter, currentStep, cycleMeasurements, cycleTrajectories,
                   cbLog, rotateCompleted, mCurrentLegIndex, scannerCalls,
                   sceneCalls, clockAdvances, legCompletions, scannerArgs,
                   scannerNotified, currentGpsTime_ns>>
    /\ MainFrame

\* the record a producer appends during step currentStep + 1
NewRecord == currentStep + 1

\* The scanner handed the clock value of the end of the step.
ScannerTimeLate == AdvanceClock(currentGpsTime_ns, stepGpsTime_ns)

\* the clock value passed to mScanner->doSimStep
ScannerTime == currentGpsTime_ns

\* mScanner->doSimStep(mCurrentLegIndex, currentGpsTime_ns)
StepScanner ==
    /\ pc = "scanner"
    /\ scannerCalls' = scannerCalls + 1
    /\ scannerArgs' = [leg |-> mCurrentLegIndex, time |-> ScannerTime]
    /\ rotateCompleted' \in BOOLEAN
    /\ \E what \in Produce :
          /\ cycleMeasurements' =
                IF what = "meas" THEN Append(cycleMeasurements, NewRecord)
                                 ELSE cycleMeasurements
          /\ cycleTrajectories' =
                IF what = "traj" THEN Append(cycleTrajectories, NewRecord)
                                 ELSE cycleTrajectories
    /\ pc' = "scene"
    /\ UNCHANGED <<iter, currentStep, cbLog, waypointReached, mCurrentLegIndex,
                   platformCalls, sceneCalls, clockAdvances, legCompletions,
                   scannerNotified, currentGpsTime_ns>>
    /\ MainFrame

\* mScanner->platform->scene->doSimStep()
StepScene ==
    /\ pc = "scene"
    /\ sceneCalls' = sceneCalls + 1
    /\ pc' = "clock"
    /\ UNCHANGED <<iter, currentStep, cycleMeasurements, cycleTrajectories,
                   cbLog, rotateCompleted, waypointReached, mCurrentLegIndex,
                   platformCalls, scannerCalls, clockAdvances, legCompletions,
                   scannerArgs, scannerNotified, currentGpsTime_ns>>
    /\ MainFrame

\* currentGpsTime_ns += stepGpsTime_ns; if (...) currentGpsTime_ns -= ...
StepClock ==
    /\ pc = "clock"
    /\ currentGpsTime_ns' = AdvanceClock(currentGpsTime_ns, stepGpsTime_ns)
    /\ clockAdvances' = clockAdvances + 1
    /\ pc' = "next"
    /\ UNCHANGED <<iter, currentStep, cycleMeasurements, cycleTrajectories,
                   cbLog, rotateCompleted, waypointReached, mCurrentLegIndex,
                   platformCalls, scannerCalls, sceneCalls, legCompletions,
                   scannerArgs, scannerNotified>>
    /\ MainFrame

\* stepLoop.doStep(): the step handler has returned, the step is counted
StepNext ==
    /\ pc = "next"
    /\ currentStep' = currentStep + 1
    /\ pc' = "iter"
    /\ UNCHANGED <<iter, cycleMeasurements, cycleTrajectories, cbLog,
                   rotateCompleted, waypointReached, mCurrentLegIndex,
                   platformCalls, scannerCalls, sceneCalls, clockAdvances,
                   legCompletions, scannerArgs, scannerNotified,
                   currentGpsTime_ns>>
    /\ MainFrame

\* The cadence test on iter instead of iter - 1.
CadenceHitIter(it, freq) == it = freq

\* if (iter - 1 == getCallbackFrequency()), iter already incremented
CadenceHit(it, freq) == it - 1 = freq

\* one callback invocation: what it was handed, and how many records the
\* buffers hold when the critical section around it ends
Delivery(kind, measAfter, trajAfter) ==
    [kind |-> kind, step |-> currentStep,
     left |-> Len(measAfter) + Len(trajAfter)]

\* The buffer left as it was after the periodic callback.
PeriodicKeep(buf) == buf

\* cycleMeasurements->clear(); cycleTrajectories->clear();
PeriodicClear(buf) == <<>>

\* iter++; if (iter - 1 == getCallbackFrequency()) { callback, clear; iter = 1 }
IterCallback ==
    /\ pc = "iter"
    /\ IF CadenceHit(iter + 1, callbackFrequency)
       THEN /\ iter' = 1
            /\ IF callback
               THEN /\ cycleMeasurements' = PeriodicClear(cycleMeasurements)
                    /\ cycleTrajectories' = PeriodicClear(cycleTrajectories)
                    /\ cbLog' = Append(cbLog,
                                  Delivery("periodic", cycleMeasurements',
                                           cycleTrajectories'))
               ELSE UNCHANGED <<cycleMeasurements, cycleTrajectories, cbLog>>
       ELSE /\ iter' = iter + 1
            /\ UNCHANGED <<cycleMeasurements, cycleTrajectories, cbLog>>
    /\ pc' = "loop"
    /\ UNCHANGED <<currentStep, rotateCompleted, waypointReached,
                   mCurrentLegIndex, platformCalls, scannerCalls, sceneCalls,
                   clockAdvances, legCompletions, scannerArgs, scannerNotified,
                   currentGpsTime_ns>>
    /\ MainFrame

\* The end of start() with the scanner not told before shutdown().
FinishSilent ==
    /\ pc = "finish"
    /\ pc' = "shutdown"
    /\ UNCHANGED <<iter, currentStep, cbLog, rotateCompleted, waypointReached,
                   mCurrentLegIndex, platformCalls, scannerCalls, sceneCalls,
                   clockAdvances, legCompletions, scannerArgs,
                   currentGpsTime_ns, scannerNotified, cycleMeasurements,
                   cycleTrajectories>>
    /\ MainFrame

\* mScanner->onSimulationFinished(): pending pulse work may still append
Finish ==
    /\ pc = "finish"
    /\ scannerNotified' = TRUE
    /\ \E what \in {"none", "meas"} :
          cycleMeasurements' =
              IF what = "meas" THEN Append(cycleMeasurements, NewRecord)
                               ELSE cycleMeasurements
    /\ pc' = "shutdown"
    /\ UNCHANGED <<iter, currentStep, cycleTrajectories, cbLog,
                   rotateCompleted, waypointReached, mCurrentLegIndex,
                   platformCalls, scannerCalls, sceneCalls, clockAdvances,
                   legCompletions, scannerArgs, currentGpsTime_ns>>
    /\ MainFrame

\* shutdown(): finished = true;
Shutdown ==
    /\ pc = "shutdown"
    /\ finished' = TRUE
    /\ pc' = "flush"
    /\ UNCHANGED <<iter, currentStep, cycleMeasurements, cycleTrajectories,
                   cbLog, rotateCompleted, waypointReached, mCurrentLegIndex,
                   platformCalls, scannerCalls, sceneCalls, clockAdvances,
                   legCompletions, scannerArgs, scannerNotified,
                   currentGpsTime_ns>>
    /\ UNCHANGED <<pauseVars, speedVars, auxVars>>
    /\ UNCHANGED <<stepGpsTime_ns, posixNow, constructed, clockSteps>>
    /\ UNCHANGED <<mStopped, callback, callbackFrequency>>

\* The terminal gate without its frequency test.
TerminalGateAny == callback

\* if (callback != nullptr && getCallbackFrequency() > 0)
TerminalGate == callback /\ callbackFrequency > 0

\* shutdown(): the terminal callback under cycleMeasurementsMutex; the
\* buffers are not cleared
Flush ==
    /\ pc = "flush"
    /\ IF TerminalGate
       THEN cbLog' = Append(cbLog, Delivery("terminal", cycleMeasurements,
                                            cycleTrajectories))
       ELSE UNCHANGED cbLog
    /\ pc' = "done"
    /\ UNCHANGED <<iter, currentStep, cycleMeasurements, cycleTrajectories,
                   rotateCompleted, waypointReached, mCurrentLegIndex,
                   platformCalls, scannerCalls, sceneCalls, clockAdvances,
                   legCompletions, scannerArgs, scannerNotified,
                   currentGpsTime_ns>>
    /\ MainFrame

\* ------------------------------------------------------ the other threads

\* what a thread calling pause() or stop() leaves alone
ThreadFrame ==
    /\ UNCHANGED <<pc, iter, currentStep, finished, callback,
                   callbackFrequency, cycleMeasurements, cycleTrajectories,
                   cbLog, rotateCompleted, waypointReached, mCurrentLegIndex,
                   platformCalls, scannerCalls, sceneCalls, clockAdvances,
                   legCompletions, scannerArgs, scannerNotified>>
    /\ UNCHANGED <<clockVars, speedVars, auxVars>>

\* the external stop predicate turns true
Stop ==
    /\ ~mStopped
    /\ pc # "done"
    /\ mStopped' = TRUE
    /\ UNCHANGED pauseVars
    /\ ThreadFrame

\* pause(b) without the early return of its first line.
PauseCheckAlways(t, b) ==
    /\ ppc[t] = "idle"
    /\ pauseCalls < MaxPauseCalls
    /\ pauseCalls' = pauseCalls + 1
    /\ parg' = [parg EXCEPT ![t] = b]
    /\ ppc' = [ppc EXCEPT ![t] = "set"]
    /\ pauseHeld' = IF b THEN pauseHeld ELSE FALSE
    /\ UNCHANGED <<mPaused, pauseLock, mStopped>>
    /\ ThreadFrame

\* pause(b): if (pause == this->mPaused) return;
PauseCheck(t, b) ==
    /\ ppc[t] = "idle"
    /\ pauseCalls < MaxPauseCalls
    /\ pauseCalls' = pauseCalls + 1
    /\ parg' = [parg EXCEPT ![t] = b]
    /\ ppc' = [ppc EXCEPT ![t] = IF b = mPaused THEN "idle" ELSE "set"]
    /\ pauseHeld' = IF b THEN pauseHeld ELSE FALSE
    /\ UNCHANGED <<mPaused, pauseLock, mStopped>>
    /\ ThreadFrame

\* this->mPaused = pause;
PauseSet(t) ==
    /\ ppc[t] = "set"
    /\ mPaused' = parg[t]
    /\ ppc' = [ppc EXCEPT ![t] = "lock"]
    /\ UNCHANGED <<pauseLock, parg, pauseCalls, pauseHeld, mStopped>>
    /\ ThreadFrame

\* pauseLock = make_shared<unique_lock<mutex>>(unique_lock<mutex>(mutex));
\* blocks until the mutex is free
PauseAcquire(t) ==
    /\ ppc[t] = "lock"
    /\ parg[t]
    /\ ~pauseLock
    /\ pauseLock' = TRUE
    /\ pauseHeld' = TRUE
    /\ ppc' = [ppc EXCEPT ![t] = "idle"]
    /\ UNCHANGED <<mPaused, parg, pauseCalls, mStopped>>
    /\ ThreadFrame

\* pause(false) that leaves the lock in place.
PauseReleaseKeep(t) ==
    /\ ppc[t] = "lock"
    /\ ~parg[t]
    /\ ppc' = [ppc EXCEPT ![t] = "idle"]
    /\ UNCHANGED <<mPaused, pauseLock, parg, pauseCalls, pauseHeld, mStopped>>
    /\ ThreadFrame

\* pauseLock = nullptr;
PauseRelease(t) ==
    /\ ppc[t] = "lock"
    /\ ~parg[t]
    /\ pauseLock' = FALSE
    /\ ppc' = [ppc EXCEPT ![t] = "idle"]
    /\ UNCHANGED <<mPaused, parg, pauseCalls, pauseHeld, mStopped>>
    /\ ThreadFrame

\* ------------------------------------------------------------------- Next

Next ==
    \/ Start
    \/ LoopContinue
    \/ LoopExit
    \/ LoopLock
    \/ StepLegComplete
    \/ StepBegin
    \/ StepPlatform
    \/ StepScanner
    \/ StepScene
    \/ StepClock
    \/ StepNext
    \/ IterCallback
    \/ Finish
    \/ Shutdown
    \/ Flush
    \/ Stop
    \/ \E t \in LoopThreads, b \in BOOLEAN : PauseCheck(t, b)
    \/ \E t \in LoopThreads : PauseSet(t)
    \/ \E t \in LoopThreads : PauseAcquire(t)
    \/ \E t \in LoopThreads : PauseRelease(t)

Spec == Init /\ [][Next]_vars

\* ------------------------------------------------------ the clock alone

\* Times of week the clock is advanced from.
ClockStarts ==
    {T(0, 0), T(0, 1), T(1, 0), T(302400, 500000000), T(604798, 0),
     T(604799, 0), T(604799, 500000000), T(604799, 999999000),
     T(604799, 999999998), T(604799, 999999999)}

\* Per-step deltas, all below one week.
ClockDeltas ==
    {T(0, 1), T(0, 2), T(0, 1000), T(0, 10000), T(0, 500000000), T(1, 0),
     T(302400, 0), T(604799, 999999999)}

InitClock ==
    /\ InitLoop /\ callback = FALSE /\ callbackFrequency = 0
    /\ InitPause
    /\ InitSpeed
    /\ InitRerun /\ InitParsed /\ InitDrain /\ InitMath
    /\ posixNow = GpsEpochOffset
    /\ constructed = TRUE
    /\ currentGpsTime_ns \in ClockStarts
    /\ stepGpsTime_ns \in ClockDeltas
    /\ clockSteps = 0

\* the clock advance of one doSimStep that is not a leg completion
ClockStep ==
    /\ clockSteps < MaxClockSteps
    /\ currentGpsTime_ns' = AdvanceClock(currentGpsTime_ns, stepGpsTime_ns)
    /\ clockSteps' = clockSteps + 1
    /\ UNCHANGED <<stepGpsTime_ns, posixNow, constructed>>
    /\ UNCHANGED <<loopVars, pauseVars, speedVars, auxVars>>

NextClock == ClockStep

SpecClock == InitClock /\ [][NextClock]_vars

\* ------------------------------------------------------ construction alone

\* Resolved POSIX seconds: around 0, around the GPS epoch, around the end
\* of the first GPS week, 2020-01-06 00:00:00 and a later instant.
PosixInputs ==
    (0 .. PosixProbe)
    \cup ((GpsEpochOffset - PosixProbe) .. (GpsEpochOffset + PosixProbe))
    \cup {GpsEpochOffset + WeekSec - 1, GpsEpochOffset + WeekSec,
          GpsEpochOffset + WeekSec + 1, 1578268800, 1800000000}

\* the characters of a string, one per element
Digit == <<"0", "1", "2", "3", "4", "5", "6", "7", "8", "9">>

IsDigit(c) == \E i \in DOMAIN Digit : Digit[i] = c

DigitVal(c) == (CHOOSE i \in DOMAIN Digit : Digit[i] = c) - 1

\* the value of a string of decimal digits
RECURSIVE DecimalValue(_)
DecimalValue(str) ==
    IF str = <<>> THEN 0
    ELSE 10 * DecimalValue(SubSeq(str, 1, Len(str) - 1))
            + DigitVal(str[Len(str)])

\* the result of a conversion: a value, or an exception thrown
Parsed(v) == [ok |-> TRUE, val |-> v]

Thrown == [ok |-> FALSE, val |-> 0]

\* std::stol(str): leading white space is skipped, an optional sign is
\* read, then the longest run of digits; what follows is ignored. No digit
\* at that place throws std::invalid_argument. (The inputs used stay
\* inside long, so std::out_of_range does not arise.)
Stol(str) ==
    LET n == Len(str)
        start == IF \E i \in 1 .. n : str[i] # " "
                 THEN CHOOSE i \in 1 .. n :
                        str[i] # " " /\ \A j \in 1 .. (i - 1) : str[j] = " "
                 ELSE n + 1
        signed == start <= n /\ str[start] \in {"+", "-"}
        first == IF signed THEN start + 1 ELSE start
        last == CHOOSE j \in (first - 1) .. n :
                   /\ \A k \in first .. j : IsDigit(str[k])
                   /\ j < n => ~IsDigit(str[j + 1])
        v == DecimalValue(SubSeq(str, first, last))
    IN  IF last < first THEN Thrown
        ELSE Parsed(IF signed /\ str[start] = "-" THEN -v ELSE v)

\* str.find(":") != std::string::npos
HasColon(str) == \E i \in DOMAIN str : str[i] = ":"

\* "YYYY-MM-DD hh:mm:ss" exactly
IsExactDateTime(str) ==
    /\ Len(str) = 19
    /\ \A i \in {1, 2, 3, 4, 6, 7, 9, 10, 12, 13, 15, 16, 18, 19} :
          IsDigit(str[i])
    /\ str[5] = "-" /\ str[8] = "-" /\ str[11] = " "
    /\ str[14] = ":" /\ str[17] = ":"

\* an optional minus sign and decimal digits, nothing else
IsIntegerLiteral(str) ==
    /\ str # <<>>
    /\ LET body == IF str[1] = "-" THEN Tail(str) ELSE str
       IN  body # <<>> /\ \A i \in DOMAIN body : IsDigit(body[i])

\* days from 1970-01-01 to the civil date y-m-d
DaysFromCivil(y, m, d) ==
    LET yy == IF m <= 2 THEN y - 1 ELSE y
        era == yy \div 400
        yoe == yy - era * 400
        mp == IF m > 2 THEN m - 3 ELSE m + 9
        doy == (153 * mp + 2) \div 5 + d - 1
        doe == yoe * 365 + yoe \div 4 - yoe \div 100 + doy
    IN  era * 146097 + doe - 719468

\* DateTimeUtils::dateTimeStrToSeconds: the exact form gives its POSIX
\* seconds (read as UTC), anything else is a parsing failure
DateTimeStrToSeconds(str) ==
    IF ~IsExactDateTime(str) THEN Thrown
    ELSE LET num(i, j) == DecimalValue(SubSeq(str, i, j))
         IN  Parsed(DaysFromCivil(num(1, 4), num(6, 7), num(9, 10)) * 86400
                    + num(12, 13) * 3600 + num(15, 16) * 60 + num(18, 19))

\* calcCurrentGpsTime, the try block: the value of now, or the exception
ResolveNow(str, wallClock) ==
    IF str # <<>>
    THEN IF HasColon(str) THEN DateTimeStrToSeconds(str) ELSE Stol(str)
    ELSE Parsed(wallClock)

\* the fixed start specifications tried
StartSpecs ==
    { <<>>,
      <<"0">>,
      <<"5">>,
      <<"-", "7">>,
      <<"1", "5", "7", "8", "2", "6", "8", "8", "0", "0">>,
      <<"2", "0", "2", "0", "-", "0", "1", "-", "0", "6", " ",
        "0", "0", ":", "0", "0", ":", "0", "0">>,
      <<"n", "o", "t", "-", "a", "-", "d", "a", "t", "e">>,
      <<"2", "0", "2", "0", "-", "0", "1", "-", "0", "6">>,
      <<"1", "2", "a", "b", "c">>,
      <<" ", "4", "2">>,
      <<"1", "e", "9">>,
      <<"-">>,
      <<" ">>,
      <<"1", "2", ":", "3", "0">>,
      <<"2", "0", "2", "0", "-", "0", "1", "-", "0", "6", "T",
        "0", "0", ":", "0", "0", ":", "0", "0">> }

InitConstruct ==
    /\ InitLoop /\ callback = FALSE /\ callbackFrequency = 0
    /\ InitPause
    /\ InitSpeed
    /\ InitRerun /\ InitDrain /\ InitMath
    /\ fixedGpsTimeStart \in StartSpecs
    /\ ctorFailed = FALSE
    /\ posixNow \in IF fixedGpsTimeStart = <<>> THEN PosixInputs ELSE {0}
    /\ constructed = FALSE
    /\ currentGpsTime_ns = T(0, 0)
    /\ stepGpsTime_ns = T(0, 0)
    /\ clockSteps = 0

\* Simulation::Simulation: currentGpsTime_ns = calcCurrentGpsTime(), with
\* posixNow the wall clock before the call and the resolved value of now
\* after it; catch (std::exception &ex) { log; throw ex; } ends the
\* constructor without an object
ConstructClock ==
    /\ ~constructed
    /\ ~ctorFailed
    /\ LET now == ResolveNow(fixedGpsTimeStart, posixNow)
       IN  IF now.ok
           THEN /\ constructed' = TRUE
                /\ posixNow' = now.val
                /\ currentGpsTime_ns' = GpsTimeOf(now.val)
                /\ UNCHANGED ctorFailed
           ELSE /\ ctorFailed' = TRUE
                /\ UNCHANGED <<constructed, posixNow, currentGpsTime_ns>>
    /\ UNCHANGED <<stepGpsTime_ns, clockSteps, fixedGpsTimeStart>>
    /\ UNCHANGED <<loopVars, pauseVars, speedVars, rerunVars, drainVars,
                   mathVars>>

NextConstruct == ConstructClock

SpecConstruct == InitConstruct /\ [][NextConstruct]_vars

\* ------------------------------------------------- the speed factor alone

\* Requested factors in units of 0.00001: around 0 and 0.0001, then 5,
\* around 10000, and 20000; -1 as well.
SpeedInputs ==
    ((0 - SpeedProbe) .. SpeedProbe)
    \cup {0 - 100000, 500000, MaxSpeed - 1, MaxSpeed, MaxSpeed + 1,
          2 * MaxSpeed}

InitSpeedOnly ==
    /\ InitLoop /\ callback = FALSE /\ callbackFrequency = 0
    /\ InitPause
    /\ InitSpeed
    /\ InitRerun /\ InitParsed /\ InitDrain /\ InitMath
    /\ Construct(GpsEpochOffset)

\* setSimSpeedFactor(factor)
SetSimSpeedFactor(factor) ==
    /\ mSimSpeedFactor' = ClampSpeed(factor)
    /\ reqFactor' = factor
    /\ speedCalls' = 1
    /\ UNCHANGED <<loopVars, pauseVars, clockVars, auxVars>>

NextSpeed == \E factor \in SpeedInputs : SetSimSpeedFactor(factor)

SpecSpeed == InitSpeedOnly /\ [][NextSpeed]_vars

\* ---------------------------------------- operations on a finished run

\* how many further calls of start() are followed
MaxRuns == 2

\* the scanners handed to setScanner
Scanners == {1, 2}

\* the factors handed to setSimSpeedFactor after a run
RerunFactors == {0, 5 * 10000, 2000000000}

InitRerunSpec ==
    /\ Init
    /\ callback
    /\ callbackFrequency = 2

\* prepareSimulation(): finished = false; ... stepLoop.setCurrentStep(0);
\* stepGpsTime_ns = 1000000000. * stepLoop.getPeriod();
PrepareSimulation ==
    /\ finished' = FALSE
    /\ currentStep' = 0
    /\ \E d \in LoopDeltas : stepGpsTime_ns' = d

\* a direct call of prepareSimulation() on a run that has ended
PrepareAgain ==
    /\ pc = "done"
    /\ PrepareSimulation
    /\ UNCHANGED <<pc, iter, mStopped, callback, callbackFrequency,
                   cycleMeasurements, cycleTrajectories, cbLog,
                   rotateCompleted, waypointReached, mCurrentLegIndex,
                   platformCalls, scannerCalls, sceneCalls, clockAdvances,
                   legCompletions, scannerArgs, scannerNotified>>
    /\ UNCHANGED <<currentGpsTime_ns, posixNow, constructed, clockSteps>>
    /\ UNCHANGED <<pauseVars, speedVars, auxVars>>

\* a further start() on a run that has ended: prepareSimulation, iter = 1,
\* then the loop
Restart ==
    /\ pc = "done"
    /\ runs < MaxRuns
    /\ runs' = runs + 1
    /\ PrepareSimulation
    /\ iter' = 1
    /\ pc' = "loop"
    /\ UNCHANGED <<mStopped, callback, callbackFrequency, cycleMeasurements,
                   cycleTrajectories, cbLog, rotateCompleted, waypointReached,
                   mCurrentLegIndex, platformCalls, scannerCalls, sceneCalls,
                   clockAdvances, legCompletions, scannerArgs, scannerNotified>>
    /\ UNCHANGED <<currentGpsTime_ns, posixNow, constructed, clockSteps>>
    /\ UNCHANGED <<pauseVars, speedVars, mScanner, parseVars, drainVars,
                   mathVars>>

\* setScanner(scanner): if (scanner == mScanner) return; mScanner = scanner
SetScanner(scanner) ==
    /\ pc = "done"
    /\ mScanner' = IF scanner = mScanner THEN mScanner ELSE scanner
    /\ UNCHANGED <<loopVars, pauseVars, clockVars, speedVars, runs,
                   parseVars, drainVars, mathVars>>

NextRerun ==
    \/ Start
    \/ LoopContinue
    \/ LoopExit
    \/ LoopLock
    \/ StepLegComplete
    \/ StepBegin
    \/ StepPlatform
    \/ StepScanner
    \/ StepScene
    \/ StepClock
    \/ StepNext
    \/ IterCallback
    \/ Finish
    \/ Shutdown
    \/ Flush
    \/ Stop
    \/ PrepareAgain
    \/ Restart
    \/ \E scanner \in Scanners : SetScanner(scanner)
    \/ \E factor \in RerunFactors : pc = "done" /\ SetSimSpeedFactor(factor)
    \/ \E t \in LoopThreads, b \in BOOLEAN : pc = "done" /\ PauseCheck(t, b)
    \/ \E t \in LoopThreads : PauseSet(t)
    \/ \E t \in LoopThreads : PauseAcquire(t)
    \/ \E t \in LoopThreads : PauseRelease(t)

SpecRerun == InitRerunSpec /\ [][NextRerun]_vars

\* ------------------------- the callback critical section, step by step

\* how many records the producer thread appends
MaxProduced == 1

\* the callback frequencies of the runs followed
DrainFrequencies == {1, 2}

InitDrainSpec ==
    /\ Init
    /\ callback
    /\ callbackFrequency \in DrainFrequencies

\* The critical section entered without taking the mutex.
CallbackNoLock == "free"

\* std::unique_lock<std::mutex> lock(*mScanner->cycleMeasurementsMutex);
CallbackLock == "main"

\* what the control thread leaves alone inside the critical section
DrainFrame ==
    /\ UNCHANGED <<currentStep, rotateCompleted, waypointReached,
                   mCurrentLegIndex, platformCalls, scannerCalls, sceneCalls,
                   clockAdvances, legCompletions, scannerArgs, scannerNotified,
                   currentGpsTime_ns>>
    /\ UNCHANGED <<pauseVars, speedVars, rerunVars, parseVars, mathVars>>
    /\ UNCHANGED <<stepGpsTime_ns, posixNow, constructed, clockSteps>>
    /\ UNCHANGED <<mStopped, callback, callbackFrequency, finished, produced>>

\* iter++; if (iter - 1 == getCallbackFrequency()) { if (callback != nullptr)
DrainTest ==
    /\ pc = "iter"
    /\ IF CadenceHit(iter + 1, callbackFrequency)
       THEN IF callback THEN iter' = iter + 1 /\ pc' = "cbLock"
                        ELSE iter' = 1 /\ pc' = "loop"
       ELSE iter' = iter + 1 /\ pc' = "loop"
    /\ UNCHANGED <<cycleMeasurements, cycleTrajectories, cbLog, cmMutex,
                   handed>>
    /\ DrainFrame

\* the unique_lock of line 160: waits until the mutex is free
DrainLock ==
    /\ pc = "cbLock"
    /\ cmMutex = "free"
    /\ cmMutex' = CallbackLock
    /\ pc' = "cbCall"
    /\ UNCHANGED <<iter, cycleMeasurements, cycleTrajectories, cbLog, handed>>
    /\ DrainFrame

\* (*callback)(*cycleMeasurements, *cycleTrajectories, mwOutPath);
DrainCall ==
    /\ pc = "cbCall"
    /\ handed' = [meas |-> handed.meas \o cycleMeasurements,
                  traj |-> handed.traj \o cycleTrajectories]
    /\ pc' = "cbClearMeas"
    /\ UNCHANGED <<iter, cycleMeasurements, cycleTrajectories, cbLog, cmMutex>>
    /\ DrainFrame

\* mScanner->cycleMeasurements->clear();
DrainClearMeas ==
    /\ pc = "cbClearMeas"
    /\ cycleMeasurements' = PeriodicClear(cycleMeasurements)
    /\ pc' = "cbClearTraj"
    /\ UNCHANGED <<iter, cycleTrajectories, cbLog, cmMutex, handed>>
    /\ DrainFrame

\* mScanner->cycleTrajectories->clear(); } the lock ends; iter = 1;
DrainClearTraj ==
    /\ pc = "cbClearTraj"
    /\ cycleTrajectories' = PeriodicClear(cycleTrajectories)
    /\ cmMutex' = "free"
    /\ iter' = 1
    /\ cbLog' = Append(cbLog, Delivery("periodic", cycleMeasurements,
                                       cycleTrajectories'))
    /\ pc' = "loop"
    /\ UNCHANGED <<cycleMeasurements, handed>>
    /\ DrainFrame

\* shutdown(): if (callback != nullptr && getCallbackFrequency() > 0) and
\* the unique_lock of line 117
FlushLock ==
    /\ pc = "flush"
    /\ IF TerminalGate
       THEN /\ cmMutex = "free"
            /\ cmMutex' = CallbackLock
            /\ pc' = "flCall"
       ELSE /\ pc' = "done"
            /\ UNCHANGED cmMutex
    /\ UNCHANGED <<iter, cycleMeasurements, cycleTrajectories, cbLog, handed>>
    /\ DrainFrame

\* shutdown(): (*callback)(...); } the lock ends, nothing is cleared
FlushCall ==
    /\ pc = "flCall"
    /\ handed' = [meas |-> handed.meas \o cycleMeasurements,
                  traj |-> handed.traj \o cycleTrajectories]
    /\ cbLog' = Append(cbLog, Delivery("terminal", cycleMeasurements,
                                       cycleTrajectories))
    /\ cmMutex' = "free"
    /\ pc' = "done"
    /\ UNCHANGED <<iter, cycleMeasurements, cycleTrajectories>>
    /\ DrainFrame

\* a pulse task of the scanner, at work while start() runs: lock
\* cycleMeasurementsMutex, append one record (ids from 100, apart from the
\* step numbers), unlock
ProducerAppend(what) ==
    /\ produced < MaxProduced
    /\ pc \notin {"init", "done"}
    /\ cmMutex = "free"
    /\ produced' = produced + 1
    /\ cycleMeasurements' =
          IF what = "meas"
          THEN Append(cycleMeasurements, 100 + produced)
          ELSE cycleMeasurements
    /\ cycleTrajectories' =
          IF what = "traj"
          THEN Append(cycleTrajectories, 100 + produced)
          ELSE cycleTrajectories
    /\ UNCHANGED <<pc, iter, mStopped, currentStep, finished, callback,
                   callbackFrequency, cbLog, rotateCompleted, waypointReached,
                   mCurrentLegIndex, platformCalls, scannerCalls, sceneCalls,
                   clockAdvances, legCompletions, scannerArgs, scannerNotified>>
    /\ UNCHANGED <<pauseVars, clockVars, speedVars, rerunVars, parseVars,
                   mathVars, cmMutex, handed>>

NextDrain ==
    \/ Start
    \/ LoopContinue
    \/ LoopExit
    \/ LoopLock
    \/ StepLegComplete
    \/ StepBegin
    \/ StepPlatform
    \/ StepScanner
    \/ StepScene
    \/ StepClock
    \/ StepNext
    \/ DrainTest
    \/ DrainLock
    \/ DrainCall
    \/ DrainClearMeas
    \/ DrainClearTraj
    \/ Finish
    \/ Shutdown
    \/ FlushLock
    \/ FlushCall
    \/ Stop
    \/ \E what \in {"meas", "traj"} : ProducerAppend(what)

SpecDrain == InitDrainSpec /\ [][NextDrain]_vars

\* --------------------------------------- two threads calling pause()

InitRace ==
    /\ Init
    /\ ~callback
    /\ callbackFrequency = 1

NextRace ==
    \/ Start
    \/ LoopContinue
    \/ LoopExit
    \/ LoopLock
    \/ StepLegComplete
    \/ StepBegin
    \/ StepPlatform
    \/ StepScanner
    \/ StepScene
    \/ StepClock
    \/ StepNext
    \/ IterCallback
    \/ Finish
    \/ Shutdown
    \/ Flush
    \/ Stop
    \/ \E t \in Threads, b \in BOOLEAN : PauseCheck(t, b)
    \/ \E t \in Threads : PauseSet(t)
    \/ \E t \in Threads : PauseAcquire(t)
    \/ \E t \in Threads : PauseRelease(t)

SpecRace == InitRace /\ [][NextRace]_vars

\* ------------------------------------------------------- the Phong model
\* Angles are in units of pi/6, specularities in quarters, results in
\* 64ths; on the inputs used every term is a rational with these
\* denominators, so the arithmetic below is exact.

\* PI_HALF, in units of pi/6
PiHalf == 3

\* incidence angles 0, pi/3, pi/2, 2pi/3, pi
IncidenceAngles == {0, 2, 3, 4, 6}

\* targetSpecularity 0, 1/4, 1/2, 3/4, 1
Specularities == 0 .. 4

\* targetSpecularExponent
SpecularExponents == {0, 2, 4}

\* which function the unqualified name abs denotes in the build:
\* "double" is std::abs(double); "int" is ::abs(int) of <stdlib.h>, the
\* only abs in the global namespace when <cmath> alone declares it
AbsOverloads == {"double", "int"}

\* 2 * cos(k * pi/6) for the incidence angles used
TwiceCos(k) ==
    CASE k = 0 -> 2
      [] k = 2 -> 1
      [] k = 3 -> 0
      [] k = 4 -> -1
      [] k = 6 -> -2

\* 4 * cos(k * pi/6)^2 for the specular angles 0 .. pi/2
FourCosSq(k) ==
    CASE k = 0 -> 4
      [] k = 1 -> 3
      [] k = 2 -> 1
      [] k = 3 -> 0

RECURSIVE IntPow(_, _)
IntPow(x, n) == IF n = 0 THEN 1 ELSE x * IntPow(x, n - 1)

\* specularAngle = (incidenceAngle <= PI_HALF) ? incidenceAngle
\*                                               : incidenceAngle - PI_HALF
SpecularAngle(k) == IF k <= PiHalf THEN k ELSE k - PiHalf

\* 16 * pow(abs(cos(specularAngle)), Ns) for an even Ns up to 4: with
\* abs on double the power of the cosine; with abs on int the cosine is
\* first converted to int, 1 at angle 0 and 0 at the other angles
SixteenAbsPow(k, n, overload) ==
    IF overload = "double"
    THEN IntPow(FourCosSq(k), n \div 2) * IntPow(4, 2 - n \div 2)
    ELSE LET c == IF FourCosSq(k) = 4 THEN 1 ELSE 0
         IN  16 * IntPow(c, n)

\* EnergyMaths::phongBDRF, in 64ths
PhongBDRF(incidenceAngle, targetSpecularity, targetSpecularExponent, overload) ==
    LET kd == 4 - targetSpecularity
        diffuse == kd * TwiceCos(incidenceAngle) * 8
        specularAngle == SpecularAngle(incidenceAngle)
        specular == targetSpecularity
                      * SixteenAbsPow(specularAngle, targetSpecularExponent,
                                      overload)
    IN  diffuse + specular

InitPhong ==
    /\ InitLoop /\ callback = FALSE /\ callbackFrequency = 0
    /\ InitPause
    /\ InitSpeed
    /\ InitRerun /\ InitParsed /\ InitDrain
    /\ \E now \in LoopStarts : Construct(now)
    /\ phi \in IncidenceAngles
    /\ ks \in Specularities
    /\ nsExp \in SpecularExponents
    /\ bdrf = [set |-> FALSE, val |-> 0]

\* one call phongBDRF(phi, ks, Ns)
CallPhong ==
    /\ ~bdrf.set
    /\ \E overload \in AbsOverloads :
          bdrf' = [set |-> TRUE, val |-> PhongBDRF(phi, ks, nsExp, overload)]
    /\ UNCHANGED <<phi, ks, nsExp>>
    /\ UNCHANGED <<loopVars, pauseVars, clockVars, speedVars, rerunVars,
                   parseVars, drainVars>>

NextPhong == CallPhong

SpecPhong == InitPhong /\ [][NextPhong]_vars

\* ------------------------------------------------------ fair scheduling

InitFair ==
    /\ Init
    /\ callback
    /\ callbackFrequency \in {1, 2}

\* the statements of the control thread, from start() to its return
ControlThread ==
    \/ Start
    \/ LoopContinue
    \/ LoopExit
    \/ LoopLock
    \/ StepLegComplete
    \/ StepBegin
    \/ StepPlatform
    \/ StepScanner
    \/ StepScene
    \/ StepClock
    \/ StepNext
    \/ IterCallback
    \/ Finish
    \/ Shutdown
    \/ Flush

\* the statements of a pause() call after its first test
PauseThread(t) == PauseSet(t) \/ PauseAcquire(t) \/ PauseRelease(t)

\* Every thread that can run does run; when pause() and stop are called
\* is up to the caller.
FairSpec ==
    /\ InitFair
    /\ [][Next]_vars
    /\ WF_vars(ControlThread)
    /\ \A t \in LoopThreads : WF_vars(PauseThread(t))

\* ================================================================= claims

\* the periodic callback invocations, in order
Periodic == SelectSeq(cbLog, LAMBDA e : e.kind = "periodic")

\* a terminal callback invocation has happened
TerminalDelivered == \E i \in DOMAIN cbLog : cbLog[i].kind = "terminal"

\* steps of the main loop whose cadence test (iter - 1 == frequency) has run
StepsTested == IF pc = "iter" THEN currentStep - 1 ELSE currentStep

\* C1 (as claimed): while a pause(true) has returned and no pause(false) has
\* been called since, the main loop performs no step: doSimStep is not
\* invoked and the step counter does not increase.
PauseBlocksStepping ==
    [][pauseHeld =>
          /\ currentStep' = currentStep
          /\ ~(pc = "step" /\ pc' # "step")]_vars

\* C2: with a callback registered and callbackFrequency = N >= 1, the k-th
\* periodic callback fires after step k * N and at no other step, one per N
\* completed steps, and both buffers are empty right after each firing.
CallbackCadence ==
    (callback /\ callbackFrequency >= 1) =>
        /\ Len(Periodic) = StepsTested \div callbackFrequency
        /\ \A i \in DOMAIN Periodic :
              /\ Periodic[i].step = i * callbackFrequency
              /\ Periodic[i].left = 0
        /\ (pc = "loop" /\ currentStep > 0
              /\ currentStep % callbackFrequency = 0)
           => (cycleMeasurements = <<>> /\ cycleTrajectories = <<>>)

\* C2 witness: with N = 2 the second periodic callback has fired, after
\* step 4.
CallbackCadenceReached ==
    /\ callback
    /\ callbackFrequency = 2
    /\ Len(Periodic) = 2
    /\ Periodic[2].step = 4
    /\ pc = "loop"

\* C3 (as claimed): from a time of week in [0, 604800 * 10^9) and a delta
\* below one week, the clock stays in [0, 604800 * 10^9) after any number of
\* advances, the upper bound never being reached.
ClockInWeek == InWeek(currentGpsTime_ns)

\* C4 (as claimed): the clock set at construction is
\* ((p - 315964809) mod 604800) * 10^9 with a non-negative modulus, so it
\* lies in [0, 604800 * 10^9), for every resolved POSIX value p.
ConstructedClockInWeek ==
    constructed =>
        /\ currentGpsTime_ns = T((posixNow - GpsEpochOffset) % WeekSec, 0)
        /\ InWeek(currentGpsTime_ns)

\* C5 (as claimed): after setSimSpeedFactor(x), for any x, the stored factor
\* lies in [0.0001, 10000].
SpeedInRange ==
    speedCalls > 0 =>
        (MinSpeed <= mSimSpeedFactor /\ mSimSpeedFactor <= MaxSpeed)

\* C6: setSimSpeedFactor(0) stores 0.0001, setSimSpeedFactor(20000) stores
\* 10000, and a requested value already in [0.0001, 10000] is stored
\* unchanged.
SpeedValues ==
    speedCalls > 0 =>
        /\ reqFactor = 0 => mSimSpeedFactor = MinSpeed
        /\ reqFactor = 2 * MaxSpeed => mSimSpeedFactor = MaxSpeed
        /\ (MinSpeed <= reqFactor /\ reqFactor <= MaxSpeed)
           => mSimSpeedFactor = reqFactor

\* C6 witness: setSimSpeedFactor(5) has stored 5.
SpeedValuesReached ==
    speedCalls > 0 /\ reqFactor = 500000 /\ mSimSpeedFactor = 500000

\* C7: doSimStep takes the leg-completion path exactly when rotateCompleted
\* and waypointReached are both true; that step advances neither platform,
\* scanner, scene nor clock; otherwise the handler is not called and the
\* ordered advance runs, so every doSimStep that has returned was either a
\* leg completion or one full advance.
LegCompletionPath ==
    /\ [][(pc = "step" /\ pc' # "step") =>
            IF rotateCompleted /\ waypointReached
            THEN /\ legCompletions' = legCompletions + 1
                 /\ pc' = "next"
                 /\ UNCHANGED <<platformCalls, scannerCalls, sceneCalls,
                                clockAdvances, currentGpsTime_ns>>
            ELSE /\ legCompletions' = legCompletions
                 /\ pc' = "platform"]_vars
    /\ [](pc = "next" =>
            /\ legCompletions + clockAdvances = currentStep + 1
            /\ platformCalls = clockAdvances
            /\ scannerCalls = clockAdvances
            /\ sceneCalls = clockAdvances)

\* C7 witness: two doSimStep calls have returned, one of them a leg
\* completion, and the clock has advanced once only.
LegCompletionReached ==
    /\ pc = "next"
    /\ currentStep = 1
    /\ legCompletions = 1
    /\ clockAdvances = 1
    /\ platformCalls = 1

\* C8: in a doSimStep that is no leg completion the advances happen once
\* each in the order platform, scanner, scene, clock; the scanner is called
\* with the current leg index and the clock value of before this step's
\* clock advance; no advance of a step starts before the clock advance of
\* the step before.
StepOrder ==
    /\ pc \notin {"scanner", "scene", "clock"} =>
          /\ platformCalls = clockAdvances
          /\ scannerCalls = clockAdvances
          /\ sceneCalls = clockAdvances
    /\ pc = "scanner" =>
          /\ platformCalls = clockAdvances + 1
          /\ scannerCalls = clockAdvances
          /\ sceneCalls = clockAdvances
    /\ pc = "scene" =>
          /\ platformCalls = clockAdvances + 1
          /\ scannerCalls = clockAdvances + 1
          /\ sceneCalls = clockAdvances
    /\ pc = "clock" =>
          /\ platformCalls = clockAdvances + 1
          /\ scannerCalls = clockAdvances + 1
          /\ sceneCalls = clockAdvances + 1
    /\ pc \in {"iter", "loop", "lock", "step"} =>
          clockAdvances + legCompletions = currentStep
    /\ pc \in {"scene", "clock"} =>
          scannerArgs = [leg |-> mCurrentLegIndex, time |-> currentGpsTime_ns]
    /\ (pc \notin {"scene", "clock"} /\ scannerCalls > 0) =>
          currentGpsTime_ns = AdvanceClock(scannerArgs.time, stepGpsTime_ns)

\* C8 witness: in the second ordered step platform, scanner and scene have
\* run, the clock has not yet advanced, and the scanner got the clock value
\* the first step left.
StepOrderReached ==
    /\ pc = "clock"
    /\ clockAdvances = 1
    /\ sceneCalls = 2
    /\ scannerArgs.time = currentGpsTime_ns
    /\ currentGpsTime_ns = T(WeekSec - 1, 0)

\* C9 (as claimed): after the loop the terminal flush comes first, then the
\* run is marked Finished, then the scanner is notified: the scanner is
\* never notified before the run is Finished, and the run is never Finished
\* before the terminal flush is delivered.
TerminationOrderClaimed ==
    /\ scannerNotified => finished
    /\ (finished /\ TerminalGate) => TerminalDelivered

\* C9 (amended): after the loop the scanner is notified first, then the run
\* is marked Finished, then the terminal flush is delivered (when a callback
\* is registered and callbackFrequency > 0); start() ends with all three
\* done.
TerminationOrder ==
    /\ finished => scannerNotified
    /\ TerminalDelivered => (finished /\ scannerNotified)
    /\ pc = "done" => (finished /\ (TerminalGate => TerminalDelivered))
    /\ pc \in {"init", "loop", "lock", "step", "platform", "scanner", "scene",
               "clock", "next", "iter", "finish"}
       => (~scannerNotified /\ ~finished /\ ~TerminalDelivered)

\* C9 witness: start() has returned after a terminal flush.
TerminationOrderReached ==
    pc = "done" /\ TerminalDelivered /\ finished /\ scannerNotified

\* C10 (as claimed): after every callback delivery, terminal as well as
\* periodic, both buffers are empty.
TerminalFlushEmpties ==
    \A i \in DOMAIN cbLog : cbLog[i].left = 0

\* C11: with one caller at a time, pause(b) called when mPaused = b already
\* returns at once and changes neither mPaused nor the ownership of the
\* pause lock (no second acquisition, no blocking); so whenever no call is
\* in progress the flag and the lock agree, pause(true);pause(true) leaves
\* the state of one pause(true), and one pause(false) frees the lock the
\* loop waits for.
PauseIdempotent ==
    /\ [][\A t \in LoopThreads :
            (ppc[t] = "idle" /\ pauseCalls' = pauseCalls + 1
                /\ parg'[t] = mPaused)
            => (mPaused' = mPaused /\ pauseLock' = pauseLock /\ ppc' = ppc)]_vars
    /\ []((\A t \in LoopThreads : ppc[t] = "idle")
            => /\ mPaused <=> pauseLock
               /\ mPaused = parg["t1"]
               /\ (pc = "lock" /\ ~mPaused) => ENABLED LoopLock)

\* C11 witness: two calls have returned, the last one pause(true), one of
\* them without effect; the run is paused once and the loop waits at its
\* lock.
PauseIdempotentReached ==
    /\ pauseCalls = 2
    /\ ppc["t1"] = "idle"
    /\ parg["t1"]
    /\ mPaused
    /\ pauseLock
    /\ pc = "lock"
    /\ iter = 1

\* a is an initial part of b
IsPrefix(a, b) == Len(a) <= Len(b) /\ SubSeq(b, 1, Len(a)) = a

\* C17: with no callback registered, or with callbackFrequency 0, the
\* callback is never invoked, neither in the loop nor by the terminal
\* flush; every iteration of the loop still makes its step, and the two
\* buffers only grow: nothing the control thread does clears them.
CallbackGated ==
    /\ []((~callback \/ callbackFrequency = 0)
            => /\ cbLog = <<>>
               /\ pc \in {"loop", "lock", "step", "iter"}
                    => currentStep = clockAdvances + legCompletions
               /\ pc = "done" => finished /\ scannerNotified)
    /\ [][(~callback \/ callbackFrequency = 0)
            => /\ IsPrefix(cycleMeasurements, cycleMeasurements')
               /\ IsPrefix(cycleTrajectories, cycleTrajectories')]_vars

\* C17 witness: a callback registered with frequency 0; the run has
\* ended after three steps with records still in the buffers.
CallbackGatedReached ==
    /\ callback
    /\ callbackFrequency = 0
    /\ pc = "done"
    /\ currentStep = 3
    /\ Len(cycleMeasurements) >= 2
    /\ Len(cycleTrajectories) >= 1

\* C15 as claimed: every step the loop executes, leg-completion steps
\* and steps across the week boundary included, leaves simulated time
\* greater than it found it.
EveryStepAdvancesTime ==
    [][(pc # "next" /\ pc' = "next")
        => TLess(currentGpsTime_ns, currentGpsTime_ns')]_vars

\* C15: steps are sequential and each one counts once; a step that is
\* not a leg completion adds stepGpsTime_ns to simulated time and takes
\* one week off when the sum exceeds the week, so time grows in every
\* such step but the one that crosses the week boundary; a
\* leg-completion step leaves simulated time as it was; nothing else
\* changes simulated time.
MonotonicProgress ==
    [][LET t == currentGpsTime_ns
           u == TAdd(currentGpsTime_ns, stepGpsTime_ns)
       IN  /\ currentStep' = IF pc = "next" /\ pc' = "iter"
                              THEN currentStep + 1 ELSE currentStep
           /\ (pc = "next") => pc' \in {"next", "iter"}
           /\ (pc' = "step") => pc \in {"lock", "step"}
           /\ (pc = "clock" /\ pc' = "next")
                => /\ currentGpsTime_ns' =
                        IF u.s > WeekSec \/ (u.s = WeekSec /\ u.ns > 0)
                        THEN [s |-> u.s - WeekSec, ns |-> u.ns]
                        ELSE u
                   /\ TLess(t, u)
                   /\ TLess(t, currentGpsTime_ns') <=> currentGpsTime_ns' = u
           /\ (pc = "step" /\ pc' = "next") => currentGpsTime_ns' = t
           /\ ~(pc = "clock" /\ pc' = "next") => currentGpsTime_ns' = t]_vars

\* C15 witness: four steps counted, one of them a leg completion, and the
\* clock has gone through the week boundary: it reads less than the
\* value the run started from.
MonotonicProgressReached ==
    /\ pc = "iter"
    /\ currentStep = 4
    /\ legCompletions = 1
    /\ clockAdvances = 3
    /\ TLess(currentGpsTime_ns, GpsTimeOf(GpsEpochOffset + WeekSec - 2))

\* C13 (as claimed): a non-empty start specification that is neither a
\* bare integer literal nor an exact "YYYY-MM-DD hh:mm:ss" date-time makes
\* construction fail, so no clock value is set; the empty string, a bare
\* integer literal and an exact date-time are accepted without error.
ClockParsingFatal ==
    LET str == fixedGpsTimeStart
        wellFormed == str = <<>> \/ IsIntegerLiteral(str)
                        \/ IsExactDateTime(str)
    IN  /\ wellFormed => ~ctorFailed
        /\ ~wellFormed => ~constructed /\ currentGpsTime_ns = T(0, 0)

\* C12 (as claimed): once the run is Finished no public operation (pause,
\* setSimSpeedFactor, setScanner, prepareSimulation, a further start())
\* returns it to a non-finished state or executes another step, and
\* finished is set only on the loop-exit path of start().
FinishedIsTerminal ==
    [][/\ finished
            => /\ finished'
               /\ platformCalls' = platformCalls
               /\ legCompletions' = legCompletions
       /\ (~finished /\ finished') => pc = "shutdown"]_vars

\* no element occurs twice in s
NoDuplicates(s) == \A i, j \in DOMAIN s : s[i] = s[j] => i = j

\* the elements of s
Range(s) == {s[i] : i \in DOMAIN s}

\* C14: a callback delivery and the clears that follow it are one critical
\* section under cycleMeasurementsMutex: the control thread holds the
\* mutex from before the callback reads the buffers until after the
\* clears (until after the callback, for the terminal flush), no producer
\* that appends under the mutex inserts a record in between, and a record
\* that leaves a buffer has been passed to the callback.
AtomicDrain ==
    /\ [](pc \in {"cbCall", "cbClearMeas", "cbClearTraj", "flCall"}
            => cmMutex = "main")
    /\ [][/\ pc \in {"cbCall", "cbClearMeas", "cbClearTraj", "flCall"}
                => produced' = produced
          /\ ~IsPrefix(cycleMeasurements, cycleMeasurements')
                => /\ cycleMeasurements' = <<>>
                   /\ Range(cycleMeasurements) \subseteq Range(handed.meas)
          /\ ~IsPrefix(cycleTrajectories, cycleTrajectories')
                => /\ cycleTrajectories' = <<>>
                   /\ Range(cycleTrajectories) \subseteq Range(handed.traj)
         ]_vars

\* C14 witness: the callback has read a non-empty measurement buffer
\* that is about to be cleared, while the producer still has a record to
\* append.
AtomicDrainReached ==
    /\ pc = "cbClearMeas"
    /\ produced < MaxProduced
    /\ cycleMeasurements # <<>>
    /\ cycleTrajectories # <<>>
    /\ Len(handed.meas) > Len(cycleMeasurements)

\* C18: in a run of start() with a callback and a constant frequency of
\* at least 1, no record is handed to the callback twice, a record leaves
\* a buffer only after the callback has been handed it, and when start()
\* has returned every record still in a buffer (the records of the last
\* steps and of onSimulationFinished among them) has been handed over by
\* the terminal flush: every record appended is delivered exactly once.
ExactlyOnce ==
    /\ [](/\ NoDuplicates(handed.meas)
          /\ NoDuplicates(handed.traj)
          /\ pc = "done"
                => /\ Range(cycleMeasurements) \subseteq Range(handed.meas)
                   /\ Range(cycleTrajectories) \subseteq Range(handed.traj)
                   /\ TerminalDelivered)
    /\ [][/\ Range(cycleMeasurements) \subseteq
                Range(cycleMeasurements') \cup Range(handed.meas)
          /\ Range(cycleTrajectories) \subseteq
                Range(cycleTrajectories') \cup Range(handed.traj)
          /\ IsPrefix(handed.meas, handed'.meas)
          /\ IsPrefix(handed.traj, handed'.traj)]_vars

\* C18 witness: start() has returned after three steps with frequency 2;
\* one periodic and the terminal delivery were made, and the record
\* appended during onSimulationFinished is the last one handed over.
ExactlyOnceReached ==
    /\ pc = "done"
    /\ callbackFrequency = 2
    /\ currentStep = 3
    /\ Len(cbLog) = 2
    /\ produced = 1
    /\ handed.meas # <<>>
    /\ handed.meas[Len(handed.meas)] = currentStep + 1
    /\ Len(handed.meas) + Len(handed.traj) >= 4

\* C19 (as claimed): whenever no pause() call is in progress, mPaused is
\* true exactly when the pause lock on the Simulation mutex is held, for
\* every interleaving of pause() calls of two threads; two callers never
\* both go on to acquire the lock.
PauseFlagMatchesLock ==
    /\ (\A t \in Threads : ppc[t] = "idle") => (mPaused <=> pauseLock)
    /\ ~(\A t \in Threads : ppc[t] = "lock" /\ parg[t])

\* C20: under fair scheduling, with one thread calling pause(): a
\* pause(true) in progress returns with the lock held; once a pause(false)
\* is past its assignment, a loop waiting at its lock goes on to count
\* another step unless it is paused again; and once the stop
\* predicate is true start() goes on to leave the loop, tell the scanner,
\* make the terminal flush and return with the run Finished, unless the
\* run is paused.
EventualProgress ==
    /\ \A t \in LoopThreads :
          (ppc[t] \in {"set", "lock"} /\ parg[t])
              ~> (ppc[t] = "idle" /\ pauseLock)
    /\ \A t \in LoopThreads :
          (pc = "lock" /\ ppc[t] = "lock" /\ ~parg[t])
              ~> (pc = "iter" \/ mPaused)
    /\ (mStopped /\ pc # "init")
          ~> (\/ /\ pc = "done"
                 /\ finished
                 /\ scannerNotified
                 /\ TerminalDelivered
              \/ mPaused)

\* C20 witness: the loop waits at its lock behind a completed pause(true)
\* with one step counted, and the pause(false) that will free it is past
\* its assignment.
EventualProgressReached ==
    /\ pc = "lock"
    /\ iter = 1
    /\ currentStep = 1
    /\ pauseLock
    /\ ~mPaused
    /\ ppc["t1"] = "lock"
    /\ ~parg["t1"]
    /\ ~mStopped

\* C16 (as claimed): reflectance(phi, ks, Ns) is the diffuse term
\* (1 - ks) * cos(phi) plus the specular term ks * |cos(phi*)|^Ns, with
\* phi* = phi when phi <= pi/2 and phi - pi/2 otherwise; at phi = 0 it is
\* 1 for ks = 0 and the specular term alone for ks = 1.
ReflectanceLaw ==
    bdrf.set =>
        LET phiStar == IF phi <= 3 THEN phi ELSE phi - 3
            cosSq == FourCosSq(phiStar)
            absPow == CASE nsExp = 0 -> 16
                        [] nsExp = 2 -> 4 * cosSq
                        [] nsExp = 4 -> cosSq * cosSq
        IN  /\ bdrf.val = (4 - ks) * TwiceCos(phi) * 8 + ks * absPow
            /\ (phi = 0 /\ ks = 0) => bdrf.val = 64
            /\ (phi = 0 /\ ks = 4) => bdrf.val = 4 * absPow

====
